---- MODULE Spec2Model ----
(***************************************************************************)
(* The payment resource of basenestapi: the in-memory PaymentService (the  *)
(* backing store), the generic BaseController (the CRUD orchestrator) as   *)
(* bound by PaymentController, and the response shapes it constructs.      *)
(*                                                                         *)
(* A JavaScript object is a function from field names to values; an absent *)
(* field is a name outside its DOMAIN.  A Date is a number of clock ticks. *)
(* A currency string is a sequence of one-character strings so that        *)
(* toUpperCase is computed character by character.  The free-text fields   *)
(* of a payment that no code path reads (customerEmail, customerName,      *)
(* description) are not carried.                                           *)
(***************************************************************************)
EXTENDS Integers, Sequences, FiniteSets, TLC

VARIABLES
    payments,   \* PaymentService.payments: the stored Payment objects, in order
    idCounter,  \* PaymentService.idCounter
    now,        \* the wall clock read by new Date() and Date.now()
    outcome,    \* what the last controller call gave its caller
    inflight,   \* calls suspended at an await, with the locals they hold
    issued,     \* history: the ids of all payments create has returned so far
    metadata,   \* what the decorators attached to the class defined last
    warnings,   \* the console.warn lines of that definition, in order
    result      \* what the last definition, construction or validation gave

vars == <<payments, idCounter, now, outcome, inflight, issued,
          metadata, warnings, result>>
storeVars == <<payments, idCounter, now, outcome, inflight, issued>>
shapeVars == <<metadata, warnings, result>>

----------------------------------------------------------------------------
(* Bounds of the model *)

MaxId == 2      \* create is not called once idCounter has passed MaxId

(* Sample inputs *)

AMOUNTS == {-5, 0, 10}
CURRENCIES == {<<"e", "u", "r">>, <<"J", "P", "Y">>}
UPDATE_AMOUNTS == {0}
CLIENTS == {1, 2}   \* callers, each with at most one call in flight
RANDOMS == {"k3j9x"}
IDS == (1..MaxId) \cup {999}
TIMES == {0, 1}   \* the clock readings

----------------------------------------------------------------------------
(* entities/payment.entity.ts *)

PENDING == "pending"
COMPLETED == "completed"
FAILED == "failed"
REFUNDED == "refunded"
PaymentStatus == {PENDING, COMPLETED, FAILED, REFUNDED}

(* What UpdatePaymentDto.status (a string) may hold *)
STATUS_INPUTS == PaymentStatus \cup {"", "cancelled"}

----------------------------------------------------------------------------
(* JavaScript primitives *)

EmptyObject == [k \in {} |-> 0]

\* { ...a, ...b }: the fields of b override those of a
Spread(a, b) == b @@ a

\* Object.assign(target, source)
ObjectAssign(target, source) == source @@ target

\* Values whose runtime type the code inspects carry it: v.t is typeof v,
\* except for null
Undefined == [t |-> "undefined"]
Null == [t |-> "null"]
Str(s) == [t |-> "string", s |-> s]
Num(n) == [t |-> "number", n |-> n]
Bool(b) == [t |-> "boolean", b |-> b]
Obj(o) == [t |-> "object", o |-> o]

typeof(v) == IF v = Null THEN "object" ELSE v.t

\* if (v), v && ..., !v
Truthy(v) ==
    CASE v.t = "undefined" -> FALSE
      [] v.t = "null" -> FALSE
      [] v.t = "string" -> v.s # <<>>
      [] v.t = "number" -> v.n # 0
      [] v.t = "boolean" -> v.b
      [] OTHER -> TRUE

\* The keys of the characters of a string
IndexKeys == <<"0", "1", "2">>

\* What Object.assign and Object.entries read from a source: the fields of an
\* object, the characters of a string by index, nothing of another primitive
OwnEnumerable(v) ==
    CASE v.t = "object" -> v.o
      [] v.t = "string" ->
            [k \in {IndexKeys[i] : i \in 1..Len(v.s)} |->
                Str(<<v.s[CHOOSE i \in 1..Len(v.s) : IndexKeys[i] = k]>>)]
      [] OTHER -> EmptyObject

\* args[i - 1] of a rest parameter `...args`
Arg(args, i) == IF Len(args) >= i THEN args[i] ELSE Undefined

\* const { status, ...rest } = o
Omit(o, key) == [k \in (DOMAIN o) \ {key} |-> o[k]]

LowerCase == <<"a", "b", "c", "d", "e", "f", "g", "h", "i", "j", "k", "l", "m",
               "n", "o", "p", "q", "r", "s", "t", "u", "v", "w", "x", "y", "z">>
UpperCase == <<"A", "B", "C", "D", "E", "F", "G", "H", "I", "J", "K", "L", "M",
               "N", "O", "P", "Q", "R", "S", "T", "U", "V", "W", "X", "Y", "Z">>

toUpperCaseChar(c) ==
    IF \E i \in 1..Len(LowerCase) : LowerCase[i] = c
    THEN UpperCase[CHOOSE i \in 1..Len(LowerCase) : LowerCase[i] = c]
    ELSE c

\* String.prototype.toUpperCase
toUpperCase(s) == [i \in 1..Len(s) |-> toUpperCaseChar(s[i])]

\* Array.prototype.findIndex((p) => p.id === id): zero-based, -1 when absent
findIndex(ps, id) ==
    IF \E i \in 1..Len(ps) : ps[i].id = id
    THEN (CHOOSE i \in 1..Len(ps) :
            /\ ps[i].id = id
            /\ \A j \in 1..(i - 1) : ps[j].id # id) - 1
    ELSE -1

\* array[index] = value: an index outside 0..length-1 that is negative only
\* sets a property and leaves the elements alone
ArrayAssign(ps, index, value) ==
    IF index \in 0..(Len(ps) - 1)
    THEN [ps EXCEPT ![index + 1] = value]
    ELSE ps

\* Variant: array.splice(index), which removes everything from index on
Splice_toEnd(ps, index) ==
    LET start == IF index < 0
                 THEN (IF Len(ps) + index < 0 THEN 0 ELSE Len(ps) + index)
                 ELSE (IF index > Len(ps) THEN Len(ps) ELSE index)
    IN [i \in 1..start |-> ps[i]]

\* array.splice(index, 1): a negative index counts from the end
Splice(ps, index) ==
    LET start == IF index < 0
                 THEN (IF Len(ps) + index < 0 THEN 0 ELSE Len(ps) + index)
                 ELSE (IF index > Len(ps) THEN Len(ps) ELSE index)
    IN [i \in 1..(IF start < Len(ps) THEN Len(ps) - 1 ELSE Len(ps)) |->
            IF i <= start THEN ps[i] ELSE ps[i + 1]]

----------------------------------------------------------------------------
(* Failures: @nestjs/common exceptions, with the id a message interpolates *)

NoError == [kind |-> "none", message |-> "", id |-> 0]
NotFoundException(message, id) == [kind |-> "NotFound", message |-> message, id |-> id]
BadRequestException(message, id) == [kind |-> "BadRequest", message |-> message, id |-> id]

Returned(value, ps, ctr) ==
    [err |-> NoError, value |-> value, payments |-> ps, idCounter |-> ctr]
Thrown(err, ps, ctr) ==
    [err |-> err, value |-> EmptyObject, payments |-> ps, idCounter |-> ctr]

----------------------------------------------------------------------------
(* PaymentService: the private helpers *)

validCurrencies == {<<"U", "S", "D">>, <<"E", "U", "R">>, <<"G", "B", "P">>}

\* Variant: the amount check is `dto.amount < 0`
validatePayment_strict(dto) ==
    IF dto.amount < 0
    THEN BadRequestException("Payment amount must be positive", 0)
    ELSE IF toUpperCase(dto.currency) \notin validCurrencies
         THEN BadRequestException("Invalid currency. Supported: USD, EUR, GBP", 0)
         ELSE NoError

\* validatePayment(dto): the failure it throws, or NoError
validatePayment(dto) ==
    IF dto.amount <= 0
    THEN BadRequestException("Payment amount must be positive", 0)
    ELSE IF toUpperCase(dto.currency) \notin validCurrencies
         THEN BadRequestException("Invalid currency. Supported: USD, EUR, GBP", 0)
         ELSE NoError

\* Variant: pending may also go straight to refunded
validTransitions_loose ==
    [s \in PaymentStatus |->
        CASE s = PENDING -> {COMPLETED, FAILED, REFUNDED}
          [] s = COMPLETED -> {REFUNDED}
          [] s = FAILED -> {}
          [] s = REFUNDED -> {}]

validTransitions ==
    [s \in PaymentStatus |->
        CASE s = PENDING -> {COMPLETED, FAILED}
          [] s = COMPLETED -> {REFUNDED}
          [] s = FAILED -> {}
          [] s = REFUNDED -> {}]

\* validateStatusTransition(currentStatus, newStatus): the failure, or NoError
validateStatusTransition(currentStatus, newStatus) ==
    LET allowedStatuses == IF currentStatus \in DOMAIN validTransitions
                           THEN validTransitions[currentStatus]
                           ELSE {}
    IN IF newStatus \notin allowedStatuses
       THEN BadRequestException("Invalid status transition", 0)
       ELSE NoError

\* `txn_${Date.now()}_${Math.random().toString(36).substr(2, 9)}`
generateTransactionId(t, r) == <<"txn", t, r>>

----------------------------------------------------------------------------
(* PaymentService: the store operations, each run without interruption.    *)
(* ps and ctr are this.payments and this.idCounter when the call starts;   *)
(* t is the clock it reads, r what Math.random() gives it.                 *)

\* Variant: the id is `this.idCounter`, never incremented
create_noIncrement(ps, ctr, createPaymentDto, t, r) ==
    LET payment == Spread(Spread([id |-> ctr], createPaymentDto),
                          [status |-> PENDING,
                           transactionId |-> generateTransactionId(t, r),
                           createdAt |-> t,
                           updatedAt |-> t])
    IN IF validatePayment(createPaymentDto) # NoError
       THEN Thrown(validatePayment(createPaymentDto), ps, ctr)
       ELSE Returned(payment, Append(ps, payment), ctr)

\* Variant: the id is `this.payments.length + 1`
create_reuseId(ps, ctr, createPaymentDto, t, r) ==
    LET payment == Spread(Spread([id |-> Len(ps) + 1], createPaymentDto),
                          [status |-> PENDING,
                           transactionId |-> generateTransactionId(t, r),
                           createdAt |-> t,
                           updatedAt |-> t])
    IN IF validatePayment(createPaymentDto) # NoError
       THEN Thrown(validatePayment(createPaymentDto), ps, ctr)
       ELSE Returned(payment, Append(ps, payment), ctr + 1)

\* Variant: the continuation takes `this.idCounter` as the id and leaves it
createValidated_noIncrement(ps, ctr, createPaymentDto, t, r) ==
    LET payment == Spread(Spread([id |-> ctr], createPaymentDto),
                          [status |-> PENDING,
                           transactionId |-> generateTransactionId(t, r),
                           createdAt |-> t,
                           updatedAt |-> t])
    IN Returned(payment, Append(ps, payment), ctr)

\* The part of create after `await this.validatePayment(...)` has passed
createValidated(ps, ctr, createPaymentDto, t, r) ==
    LET payment == Spread(Spread([id |-> ctr], createPaymentDto),
                          [status |-> PENDING,
                           transactionId |-> generateTransactionId(t, r),
                           createdAt |-> t,
                           updatedAt |-> t])
    IN Returned(payment, Append(ps, payment), ctr + 1)

create(ps, ctr, createPaymentDto, t, r) ==
    LET invalid == validatePayment(createPaymentDto)
    IN IF invalid # NoError
       THEN Thrown(invalid, ps, ctr)
       ELSE createValidated(ps, ctr, createPaymentDto, t, r)

findAll(ps, ctr) == Returned(ps, ps, ctr)

\* Variant: the lookup ignores the id and takes the first payment
findOne_first(ps, ctr, id) ==
    IF Len(ps) = 0
    THEN Thrown(NotFoundException("Payment with ID not found", id), ps, ctr)
    ELSE Returned(ps[1], ps, ctr)

findOne(ps, ctr, id) ==
    IF findIndex(ps, id) = -1
    THEN Thrown(NotFoundException("Payment with ID not found", id), ps, ctr)
    ELSE Returned(ps[findIndex(ps, id) + 1], ps, ctr)

\* Variant: the stored payment is spread over the dto, `{ ...otherUpdates,
\* ...payment }`
updateFound_paymentLast(ps, ctr, payment, id, updatePaymentDto, t) ==
    LET checked == "status" \in DOMAIN updatePaymentDto /\ updatePaymentDto.status # ""
        invalid == IF checked
                   THEN validateStatusTransition(payment.status, updatePaymentDto.status)
                   ELSE NoError
        otherUpdates == Omit(updatePaymentDto, "status")
        updatedPayment ==
            Spread(Spread(Spread(otherUpdates, payment),
                          IF checked THEN [status |-> updatePaymentDto.status]
                                     ELSE EmptyObject),
                   [updatedAt |-> t])
    IN IF invalid # NoError
       THEN Thrown(invalid, ps, ctr)
       ELSE Returned(updatedPayment,
                     ArrayAssign(ps, findIndex(ps, id), updatedPayment), ctr)

\* The part of update after `await this.findOne(id)` has given `payment`
updateFound(ps, ctr, payment, id, updatePaymentDto, t) ==
    LET checked == "status" \in DOMAIN updatePaymentDto /\ updatePaymentDto.status # ""
        invalid == IF checked
                   THEN validateStatusTransition(payment.status, updatePaymentDto.status)
                   ELSE NoError
        otherUpdates == Omit(updatePaymentDto, "status")
        updatedPayment ==
            Spread(Spread(Spread(payment, otherUpdates),
                          IF checked THEN [status |-> updatePaymentDto.status]
                                     ELSE EmptyObject),
                   [updatedAt |-> t])
    IN IF invalid # NoError
       THEN Thrown(invalid, ps, ctr)
       ELSE Returned(updatedPayment,
                     ArrayAssign(ps, findIndex(ps, id), updatedPayment), ctr)

update(ps, ctr, id, updatePaymentDto, t) ==
    LET found == findOne(ps, ctr, id)
    IN IF found.err # NoError
       THEN found
       ELSE updateFound(ps, ctr, found.value, id, updatePaymentDto, t)

\* Variant: only completed payments are protected from deletion
removeFound_completedOnly(ps, ctr, payment, id) ==
    IF payment.status = COMPLETED
    THEN Thrown(BadRequestException("Cannot delete " \o payment.status \o " payments", 0),
                ps, ctr)
    ELSE Returned(EmptyObject, Splice(ps, findIndex(ps, id)), ctr)

\* Variant: only refunded payments are protected from deletion
removeFound_refundedOnly(ps, ctr, payment, id) ==
    IF payment.status = REFUNDED
    THEN Thrown(BadRequestException("Cannot delete " \o payment.status \o " payments", 0),
                ps, ctr)
    ELSE Returned(EmptyObject, Splice(ps, findIndex(ps, id)), ctr)

\* The part of remove after `await this.findOne(id)` has given `payment`
removeFound(ps, ctr, payment, id) ==
    IF payment.status = COMPLETED \/ payment.status = REFUNDED
    THEN Thrown(BadRequestException("Cannot delete " \o payment.status \o " payments", 0),
                ps, ctr)
    ELSE Returned(EmptyObject, Splice(ps, findIndex(ps, id)), ctr)

\* Variant: remove splices without looking the payment up first
remove_unchecked(ps, ctr, id) ==
    Returned(EmptyObject, Splice(ps, findIndex(ps, id)), ctr)

remove(ps, ctr, id) ==
    LET found == findOne(ps, ctr, id)
    IN IF found.err # NoError
       THEN found
       ELSE removeFound(ps, ctr, found.value, id)

\* Variant: processPayment does not look at the current status
processFound_anyStatus(ps, ctr, payment, id, success, t) ==
    LET updatedPayment ==
            Spread(payment, [status |-> IF success THEN COMPLETED ELSE FAILED,
                             updatedAt |-> t])
    IN Returned(updatedPayment,
                ArrayAssign(ps, findIndex(ps, id), updatedPayment), ctr)

\* The part of processPayment after the await; success is Math.random() > 0.1
processFound(ps, ctr, payment, id, success, t) ==
    LET updatedPayment ==
            Spread(payment, [status |-> IF success THEN COMPLETED ELSE FAILED,
                             updatedAt |-> t])
    IN IF payment.status # PENDING
       THEN Thrown(BadRequestException("Payment with ID is not in pending status", id),
                   ps, ctr)
       ELSE Returned(updatedPayment,
                     ArrayAssign(ps, findIndex(ps, id), updatedPayment), ctr)

processPayment(ps, ctr, id, success, t) ==
    LET found == findOne(ps, ctr, id)
    IN IF found.err # NoError
       THEN found
       ELSE processFound(ps, ctr, found.value, id, success, t)

\* Variant: refundPayment does not look at the current status
refundFound_anyStatus(ps, ctr, payment, id, t) ==
    LET updatedPayment == Spread(payment, [status |-> REFUNDED, updatedAt |-> t])
    IN Returned(updatedPayment,
                ArrayAssign(ps, findIndex(ps, id), updatedPayment), ctr)

\* The part of refundPayment after the await
refundFound(ps, ctr, payment, id, t) ==
    LET updatedPayment == Spread(payment, [status |-> REFUNDED, updatedAt |-> t])
    IN IF payment.status # COMPLETED
       THEN Thrown(BadRequestException("Can only refund completed payments", 0), ps, ctr)
       ELSE Returned(updatedPayment,
                     ArrayAssign(ps, findIndex(ps, id), updatedPayment), ctr)

refundPayment(ps, ctr, id, t) ==
    LET found == findOne(ps, ctr, id)
    IN IF found.err # NoError
       THEN found
       ELSE refundFound(ps, ctr, found.value, id, t)

----------------------------------------------------------------------------
(* Response shapes *)

\* BaseResponseDto's constructor: if (partial) Object.assign(this, partial)
BaseResponseDto(partial) ==
    IF Truthy(partial)
    THEN ObjectAssign(EmptyObject, OwnEnumerable(partial))
    ELSE EmptyObject

\* super(...args) in the class a decorator returns: the decorated class
\* declares fields only, so what runs is the constructor of its base class
\* (BaseResponseDto for the response shapes, none for the Payment entity)
Super(base, args) ==
    IF base = "BaseResponseDto" THEN BaseResponseDto(Arg(args, 1)) ELSE EmptyObject

\* Variant: Object.assign(this, args), the argument list instead of args[0]
AutoResponseConstructor_assignArgs(base, args) ==
    LET this == Super(base, args)
    IN IF Truthy(Arg(args, 1)) /\ typeof(Arg(args, 1)) = "object"
       THEN ObjectAssign(this, [k \in {IndexKeys[i] : i \in 1..Len(args)} |->
                                  args[CHOOSE i \in 1..Len(args) : IndexKeys[i] = k]])
       ELSE this

\* The constructor of the class @AutoResponse returns
AutoResponseConstructor(base, args) ==
    LET this == Super(base, args)
    IN IF Truthy(Arg(args, 1)) /\ typeof(Arg(args, 1)) = "object"
       THEN ObjectAssign(this, OwnEnumerable(Arg(args, 1)))
       ELSE this

\* The constructor of the class the first @AutoEntity returns: super(...args)
AutoEntitySuperArgs(base, args) ==
    LET this == Super(base, args)
    IN IF Truthy(Arg(args, 1)) /\ typeof(Arg(args, 1)) = "object"
       THEN ObjectAssign(this, OwnEnumerable(Arg(args, 1)))
       ELSE this

\* Variant: super() and a copy of the partial only when it is the one argument
AutoEntity_oneArgument(base, args) ==
    LET this == Super(base, <<>>)
    IN IF Len(args) = 1 /\ Truthy(Arg(args, 1)) /\ typeof(Arg(args, 1)) = "object"
       THEN ObjectAssign(this, OwnEnumerable(Arg(args, 1)))
       ELSE this

\* The constructor of the class the second @AutoEntity returns: super()
AutoEntity(base, args) ==
    LET this == Super(base, <<>>)
    IN IF Len(args) > 0 /\ Truthy(Arg(args, 1)) /\ typeof(Arg(args, 1)) = "object"
       THEN ObjectAssign(this, OwnEnumerable(Arg(args, 1)))
       ELSE this

\* new ResponseClass(data) for a stored payment `data`
AutoResponse(className, data) ==
    [class |-> className,
     fields |-> AutoResponseConstructor("BaseResponseDto", <<Obj(data)>>)]

\* BaseListResponseDto's constructor(items, total?); args is its argument list
BaseListResponseDto(className, args) ==
    [class |-> className,
     items |-> args[1],
     total |-> IF Len(args) >= 2 THEN args[2] ELSE Len(args[1])]

NoResponse == [class |-> "none"]

(* PaymentController's bindings of BaseController's abstract methods *)

getResponseClass == "PaymentResponseDto"
getListResponseClass == "PaymentListResponseDto"
getCreatedResponseClass == "PaymentCreatedResponseDto"
getEntityName == "Payment"

----------------------------------------------------------------------------
(* BaseController: each operation gives what its caller receives (err,     *)
(* response), the store calls it issued in order (calls), and the store    *)
(* as the operation leaves it.                                             *)

Reply(op, stored, calls, response) ==
    [op |-> op, err |-> stored.err, response |-> response, calls |-> calls,
     payments |-> stored.payments, idCounter |-> stored.idCounter]

createEntity(ps, ctr, createDto, t, r) ==
    LET entity == create(ps, ctr, createDto, t, r)
    IN Reply("createEntity", entity, <<"create">>,
             IF entity.err # NoError THEN NoResponse
             ELSE AutoResponse(getCreatedResponseClass, entity.value))

\* Variant: only the first entity is mapped, the count is still entities.length
findAllFound_firstOnly(entities) ==
    LET responseItems ==
            [i \in 1..(IF Len(entities) > 1 THEN 1 ELSE Len(entities)) |->
                AutoResponse(getResponseClass, entities[i])]
    IN BaseListResponseDto(getListResponseClass, <<responseItems, Len(entities)>>)

\* The part of findAllEntities after `await this.service.findAll()` has given
\* `entities`
findAllFound(entities) ==
    LET responseItems ==
            [i \in 1..Len(entities) |-> AutoResponse(getResponseClass, entities[i])]
    IN BaseListResponseDto(getListResponseClass, <<responseItems, Len(entities)>>)

findAllEntities(ps, ctr) ==
    LET entities == findAll(ps, ctr)
    IN Reply("findAllEntities", entities, <<"findAll">>,
             IF entities.err # NoError THEN NoResponse
             ELSE findAllFound(entities.value))

\* Variant: a failed lookup is retried once and then answered with an empty response
findOneEntity_fallback(ps, ctr, id) ==
    LET entity == findOne(ps, ctr, id)
    IN IF entity.err # NoError
       THEN Reply("findOneEntity", Returned(EmptyObject, ps, ctr),
                  <<"findOne", "findOne">>,
                  AutoResponse(getResponseClass, EmptyObject))
       ELSE Reply("findOneEntity", entity, <<"findOne">>,
                  AutoResponse(getResponseClass, entity.value))

findOneEntity(ps, ctr, id) ==
    LET entity == findOne(ps, ctr, id)
    IN Reply("findOneEntity", entity, <<"findOne">>,
             IF entity.err # NoError THEN NoResponse
             ELSE AutoResponse(getResponseClass, entity.value))

updateEntity(ps, ctr, id, updateDto, t) ==
    LET entity == update(ps, ctr, id, updateDto, t)
    IN Reply("updateEntity", entity, <<"update">>,
             IF entity.err # NoError THEN NoResponse
             ELSE AutoResponse(getResponseClass, entity.value))

removeEntity(ps, ctr, id) ==
    LET removed == remove(ps, ctr, id)
    IN Reply("removeEntity", removed, <<"remove">>,
             IF removed.err # NoError THEN NoResponse
             ELSE [class |-> "Object", message |-> "deleted successfully",
                   entityName |-> getEntityName, id |-> id])

(* PaymentController's custom endpoints *)

processPaymentEndpoint(ps, ctr, id, success, t) ==
    LET payment == processPayment(ps, ctr, id, success, t)
    IN Reply("processPayment", payment, <<"processPayment">>,
             IF payment.err # NoError THEN NoResponse
             ELSE AutoResponse("PaymentResponseDto", payment.value))

refundPaymentEndpoint(ps, ctr, id, t) ==
    LET payment == refundPayment(ps, ctr, id, t)
    IN Reply("refundPayment", payment, <<"refundPayment">>,
             IF payment.err # NoError THEN NoResponse
             ELSE AutoResponse("PaymentResponseDto", payment.value))

----------------------------------------------------------------------------
(* Inputs *)

CreatePaymentDto == [amount : AMOUNTS, currency : CURRENCIES]

\* UpdatePaymentDto: every field is optional.  The samples supply amount and
\* status; currency is copied by the same spread as amount.
UpdatePaymentDto ==
    UNION {[amount : UPDATE_AMOUNTS, status : STATUS_INPUTS],
           [amount : UPDATE_AMOUNTS], [status : STATUS_INPUTS], {EmptyObject}}

----------------------------------------------------------------------------
(* Requests served one at a time: a handler runs from its call to its      *)
(* return, then its caller takes what it gave, then the next call starts.  *)
(* outcome holds the completed call until it is taken: the call's          *)
(* arguments, what it gave, the store as its last step found it (before),  *)
(* and what it held across its await (held; nothing when it never waited). *)

\* A call suspended at its await: the payment findOne gave it, or for
\* findAllEntities the length of the list when findAll returned it
NoCall ==
    [op |-> "none", id |-> 0, dto |-> EmptyObject, payment |-> EmptyObject, count |-> 0]

Idle ==
    [op |-> "none", id |-> 0, dto |-> EmptyObject, err |-> NoError,
     response |-> NoResponse, calls |-> <<>>,
     before |-> [payments |-> <<>>, idCounter |-> 0, issued |-> {}],
     held |-> NoCall]

NoMetadata == [validators |-> <<>>, properties |-> EmptyObject]
NoResult == [op |-> "none"]

Init ==
    /\ payments = <<>>
    /\ idCounter = 1
    /\ now = 0
    /\ outcome = Idle
    /\ inflight = [c \in CLIENTS |-> NoCall]
    /\ issued = {}
    /\ metadata = NoMetadata
    /\ warnings = <<>>
    /\ result = NoResult

\* The handler called with (id, dto), whose run is `reply`, completes
Complete(reply, id, dto, held) ==
    /\ outcome = Idle
    /\ payments' = reply.payments
    /\ idCounter' = reply.idCounter
    /\ outcome' = [op |-> reply.op, id |-> id, dto |-> dto, err |-> reply.err,
                   response |-> reply.response, calls |-> reply.calls,
                   before |-> [payments |-> payments, idCounter |-> idCounter,
                               issued |-> issued],
                   held |-> held]
    /\ issued' = IF reply.op = "createEntity" /\ reply.err = NoError
                 THEN issued \cup {reply.response.fields.id}
                 ELSE issued
    /\ UNCHANGED <<now, shapeVars>>

Serve(reply, id, dto) ==
    /\ Complete(reply, id, dto, NoCall)
    /\ UNCHANGED inflight

\* The caller takes the response or the failure
Deliver ==
    /\ outcome # Idle
    /\ outcome' = Idle
    /\ UNCHANGED <<payments, idCounter, now, inflight, issued, shapeVars>>

\* The clock moves on between calls: while a completed call waits to be
\* taken, `now` is still the reading the call saw
Tick ==
    /\ outcome = Idle
    /\ now + 1 \in TIMES
    /\ now' = now + 1
    /\ UNCHANGED <<payments, idCounter, outcome, inflight, issued, shapeVars>>

Create(dto, r) ==
    /\ idCounter <= MaxId
    /\ Serve(createEntity(payments, idCounter, dto, now, r), 0, dto)

FindAllEntities == Serve(findAllEntities(payments, idCounter), 0, EmptyObject)

FindOne(id) == Serve(findOneEntity(payments, idCounter, id), id, EmptyObject)

Update(id, dto) == Serve(updateEntity(payments, idCounter, id, dto, now), id, dto)

Remove(id) == Serve(removeEntity(payments, idCounter, id), id, EmptyObject)

ProcessPayment(id, success) ==
    Serve(processPaymentEndpoint(payments, idCounter, id, success, now), id, EmptyObject)

RefundPayment(id) ==
    Serve(refundPaymentEndpoint(payments, idCounter, id, now), id, EmptyObject)

Next ==
    \/ Tick
    \/ Deliver
    \/ \E dto \in CreatePaymentDto, r \in RANDOMS : Create(dto, r)
    \/ FindAllEntities
    \/ \E id \in IDS : FindOne(id)
    \/ \E id \in IDS, dto \in UpdatePaymentDto : Update(id, dto)
    \/ \E id \in IDS : Remove(id)
    \/ \E id \in IDS, success \in BOOLEAN : ProcessPayment(id, success)
    \/ \E id \in IDS : RefundPayment(id)

Spec == Init /\ [][Next]_vars

----------------------------------------------------------------------------
(* Requests in flight together.  An async method runs without interruption *)
(* up to its await and again from its await to its return; other calls run *)
(* in between.  A call is suspended where its continuation reads or writes *)
(* the store: create after `await this.validatePayment`, update, remove,   *)
(* processPayment and refundPayment after `await this.findOne(id)` (they   *)
(* hold the payment object the lookup gave), findAllEntities after         *)
(* `await this.service.findAll()` (it holds this.payments itself, not a    *)
(* copy).  The controller's continuation after a service call that gave a  *)
(* single payment or a failure touches no shared state and is taken        *)
(* together with the step that ends the service call.  The calls of one    *)
(* run are in flight within one reading of the clock.                      *)

Suspended(c) == inflight[c] # NoCall

\* Callers are interchangeable: a new call takes the first free one
Free(c) == ~Suspended(c) /\ \A d \in CLIENTS : ~Suspended(d) => c <= d

\* The inputs of calls in flight together
ConcCreateDto == {dto \in CreatePaymentDto : dto.currency = <<"e", "u", "r">> /\ dto.amount >= 0}
ConcUpdateDto == {dto \in UpdatePaymentDto : dto \in {[status |-> COMPLETED], [status |-> FAILED]}}
ConcIds == 1..MaxId

Begin(c, call) ==
    /\ outcome = Idle
    /\ Free(c)
    /\ inflight' = [inflight EXCEPT ![c] = call]
    /\ UNCHANGED <<payments, idCounter, now, outcome, issued, shapeVars>>

Finish(c, reply, id, dto) ==
    /\ Complete(reply, id, dto, inflight[c])
    /\ inflight' = [inflight EXCEPT ![c] = NoCall]

\* The controller's continuation for a service result that is one payment
Single(op, stored, call) ==
    Reply(op, stored, <<call>>,
          IF stored.err # NoError THEN NoResponse
          ELSE AutoResponse(getResponseClass, stored.value))

CreatesInFlight == Cardinality({c \in CLIENTS : inflight[c].op = "createEntity"})

CallCreate(c, dto) ==
    /\ Free(c)
    /\ idCounter + CreatesInFlight <= MaxId
    /\ IF validatePayment(dto) # NoError
       THEN Finish(c, createEntity(payments, idCounter, dto, now,
                                   CHOOSE r \in RANDOMS : TRUE), 0, dto)
       ELSE Begin(c, [NoCall EXCEPT !.op = "createEntity", !.dto = dto])

ResumeCreate(c, r) ==
    /\ inflight[c].op = "createEntity"
    /\ LET stored == createValidated(payments, idCounter, inflight[c].dto, now, r)
       IN Finish(c, Reply("createEntity", stored, <<"create">>,
                          AutoResponse(getCreatedResponseClass, stored.value)),
                 0, inflight[c].dto)

CallFindAll(c) ==
    Begin(c, [NoCall EXCEPT !.op = "findAllEntities", !.count = Len(payments)])

\* `entities` is this.payments, so the continuation maps the list as it is now
ResumeFindAll(c) ==
    /\ inflight[c].op = "findAllEntities"
    /\ Finish(c, findAllEntities(payments, idCounter), 0, EmptyObject)

CallFindOne(c, id) ==
    /\ Free(c)
    /\ Finish(c, findOneEntity(payments, idCounter, id), id, EmptyObject)

\* A call of `op`, whose store call `call` starts with `await this.findOne(id)`
CallLookup(c, op, call, id, dto) ==
    /\ Free(c)
    /\ LET found == findOne(payments, idCounter, id)
       IN IF found.err # NoError
          THEN Finish(c, Reply(op, found, <<call>>, NoResponse), id, dto)
          ELSE Begin(c, [NoCall EXCEPT !.op = op, !.id = id, !.dto = dto,
                                       !.payment = found.value])

CallUpdate(c, id, dto) == CallLookup(c, "updateEntity", "update", id, dto)

ResumeUpdate(c) ==
    /\ inflight[c].op = "updateEntity"
    /\ Finish(c, Single("updateEntity",
                        updateFound(payments, idCounter, inflight[c].payment,
                                    inflight[c].id, inflight[c].dto, now),
                        "update"),
              inflight[c].id, inflight[c].dto)

CallRemove(c, id) == CallLookup(c, "removeEntity", "remove", id, EmptyObject)

ResumeRemove(c) ==
    /\ inflight[c].op = "removeEntity"
    /\ LET removed == removeFound(payments, idCounter, inflight[c].payment,
                                  inflight[c].id)
       IN Finish(c, Reply("removeEntity", removed, <<"remove">>,
                          IF removed.err # NoError THEN NoResponse
                          ELSE [class |-> "Object", message |-> "deleted successfully",
                                entityName |-> getEntityName, id |-> inflight[c].id]),
                 inflight[c].id, EmptyObject)

CallProcess(c, id) == CallLookup(c, "processPayment", "processPayment", id, EmptyObject)

ResumeProcess(c, success) ==
    /\ inflight[c].op = "processPayment"
    /\ Finish(c, Single("processPayment",
                        processFound(payments, idCounter, inflight[c].payment,
                                     inflight[c].id, success, now),
                        "processPayment"),
              inflight[c].id, EmptyObject)

CallRefund(c, id) == CallLookup(c, "refundPayment", "refundPayment", id, EmptyObject)

ResumeRefund(c) ==
    /\ inflight[c].op = "refundPayment"
    /\ Finish(c, Single("refundPayment",
                        refundFound(payments, idCounter, inflight[c].payment,
                                    inflight[c].id, now),
                        "refundPayment"),
              inflight[c].id, EmptyObject)

NextConc ==
    \/ Deliver
    \/ \E c \in CLIENTS, dto \in ConcCreateDto : CallCreate(c, dto)
    \/ \E c \in CLIENTS, r \in RANDOMS : ResumeCreate(c, r)
    \/ \E c \in CLIENTS : CallFindAll(c)
    \/ \E c \in CLIENTS : ResumeFindAll(c)
    \/ \E c \in CLIENTS, id \in ConcIds : CallFindOne(c, id)
    \/ \E c \in CLIENTS, id \in ConcIds, dto \in ConcUpdateDto : CallUpdate(c, id, dto)
    \/ \E c \in CLIENTS : ResumeUpdate(c)
    \/ \E c \in CLIENTS, id \in ConcIds : CallRemove(c, id)
    \/ \E c \in CLIENTS : ResumeRemove(c)
    \/ \E c \in CLIENTS, id \in ConcIds : CallProcess(c, id)
    \/ \E c \in CLIENTS, success \in BOOLEAN : ResumeProcess(c, success)
    \/ \E c \in CLIENTS, id \in ConcIds : CallRefund(c, id)
    \/ \E c \in CLIENTS : ResumeRefund(c)

SpecConc == Init /\ [][NextConc]_vars

----------------------------------------------------------------------------
(* The shapes: what happens when a class is defined under a decorator and  *)
(* when an instance of it is constructed.  Each definition is of a new     *)
(* class, whose metadata starts empty; a run follows one class from its    *)
(* definition at module load to one use of it.                             *)

\* A function value: what calling it does is named by `does`
Fn(does) == [t |-> "function", does |-> does]

\* An object literal whose Object.entries order matters: its <<key, value>> pairs
Mapping(entries) == [t |-> "object", entries |-> entries]
ObjectEntries(mapping) == mapping.entries

TypeError(message, key) ==
    [kind |-> "TypeError", message |-> message, id |-> 0, property |-> key]

(* field.decorator.ts.  A rule is the list of decorators applyDecorators    *)
(* bundles, each a name and its argument; an optional bound not given is    *)
(* Undefined.                                                               *)

Decorator(name, arg) == [name |-> name, arg |-> arg]

ApiProperty(options) == Decorator("ApiProperty", Obj(options))

\* Variant: the presence decorators are swapped
StringField_swapped(description, example, required, minLength, maxLength) ==
    Fn(<<ApiProperty([description |-> description, example |-> example,
                      required |-> Bool(required)]),
         Decorator("IsString", Undefined),
         IF required THEN Decorator("IsOptional", Undefined)
         ELSE Decorator("IsNotEmpty", Undefined)>>
       \o (IF minLength # Undefined THEN <<Decorator("MinLength", minLength)>> ELSE <<>>)
       \o (IF maxLength # Undefined THEN <<Decorator("MaxLength", maxLength)>> ELSE <<>>))

StringField(description, example, required, minLength, maxLength) ==
    Fn(<<ApiProperty([description |-> description, example |-> example,
                      required |-> Bool(required)]),
         Decorator("IsString", Undefined),
         IF ~required THEN Decorator("IsOptional", Undefined)
         ELSE Decorator("IsNotEmpty", Undefined)>>
       \o (IF minLength # Undefined THEN <<Decorator("MinLength", minLength)>> ELSE <<>>)
       \o (IF maxLength # Undefined THEN <<Decorator("MaxLength", maxLength)>> ELSE <<>>))

EmailField(description, example, required) ==
    Fn(<<ApiProperty([description |-> description, example |-> example,
                      required |-> Bool(required)]),
         Decorator("IsEmail", Undefined),
         IF ~required THEN Decorator("IsOptional", Undefined)
         ELSE Decorator("IsNotEmpty", Undefined)>>)

\* Variant: IsNotEmpty when required, and IsOptional is never pushed
NumberField_noOptional(description, example, required, min, max) ==
    Fn(<<ApiProperty([description |-> description, example |-> example,
                      required |-> Bool(required)]),
         Decorator("IsNumber", Undefined)>>
       \o (IF required THEN <<Decorator("IsNotEmpty", Undefined)>> ELSE <<>>)
       \o (IF min # Undefined THEN <<Decorator("Min", min)>> ELSE <<>>)
       \o (IF max # Undefined THEN <<Decorator("Max", max)>> ELSE <<>>))

NumberField(description, example, required, min, max) ==
    Fn(<<ApiProperty([description |-> description, example |-> example,
                      required |-> Bool(required)]),
         Decorator("IsNumber", Undefined),
         IF ~required THEN Decorator("IsOptional", Undefined)
         ELSE Decorator("IsNotEmpty", Undefined)>>
       \o (IF min # Undefined THEN <<Decorator("Min", min)>> ELSE <<>>)
       \o (IF max # Undefined THEN <<Decorator("Max", max)>> ELSE <<>>))

\* A rule producer `() => XField(...)` is a function that, called, gives the
\* rule its field names; `() => undefined` gives nothing
Producer(field) == Fn(field)

Call(producer) ==
    CASE producer.does.kind = "StringField" ->
            StringField(Str(<<"d">>), Str(<<"x">>), producer.does.required,
                        producer.does.min, producer.does.max)
      [] producer.does.kind = "NumberField" ->
            NumberField(Str(<<"d">>), Num(99), producer.does.required,
                        producer.does.min, producer.does.max)
      [] producer.does.kind = "EmailField" ->
            EmailField(Str(<<"d">>), Str(<<"a", "@", "b">>), producer.does.required)
      [] OTHER -> Undefined

\* Variant: the checks of a field are registered ahead of the earlier fields'
Attach_ahead(meta, rule, propertyKey) ==
    LET decorators == rule.does
        documented == {i \in 1..Len(decorators) : decorators[i].name = "ApiProperty"}
        registered ==
            [i \in 1..Len(decorators) |->
                [property |-> propertyKey, name |-> decorators[i].name,
                 arg |-> decorators[i].arg]]
    IN [validators |->
            SelectSeq(registered, LAMBDA v : v.name # "ApiProperty") \o meta.validators,
        properties |->
            IF documented = {} THEN meta.properties
            ELSE [k \in {propertyKey} |->
                    decorators[CHOOSE i \in documented : TRUE].arg.o] @@ meta.properties]

\* decorator(target.prototype, propertyKey) for a rule: ApiProperty sets the
\* documented property, every other decorator is registered for validation
Attach(meta, rule, propertyKey) ==
    LET decorators == rule.does
        documented == {i \in 1..Len(decorators) : decorators[i].name = "ApiProperty"}
        registered ==
            [i \in 1..Len(decorators) |->
                [property |-> propertyKey, name |-> decorators[i].name,
                 arg |-> decorators[i].arg]]
    IN [validators |->
            meta.validators \o SelectSeq(registered, LAMBDA v : v.name # "ApiProperty"),
        properties |->
            IF documented = {} THEN meta.properties
            ELSE [k \in {propertyKey} |->
                    decorators[CHOOSE i \in documented : TRUE].arg.o] @@ meta.properties]

\* The loop of AutoApplyDecorators over entries[i..]: `st` is what it has done
\* so far (metadata attached, producers called, the TypeError that ended it)
RECURSIVE ApplyEntries(_, _, _)
ApplyEntries(entries, i, st) ==
    IF i > Len(entries) \/ st.err # NoError THEN st
    ELSE LET propertyKey == entries[i][1]
             decoratorFactory == entries[i][2]
         IN IF typeof(decoratorFactory) # "function"
            THEN [st EXCEPT !.err = TypeError("decoratorFactory is not a function",
                                              propertyKey)]
            ELSE LET decorator == Call(decoratorFactory)
                     called == [st EXCEPT !.calls = Append(@, propertyKey)]
                 IN IF typeof(decorator) # "function"
                    THEN [called EXCEPT !.err = TypeError("decorator is not a function",
                                                          propertyKey)]
                    ELSE ApplyEntries(entries, i + 1,
                            [called EXCEPT !.metadata =
                                Attach(@, decorator, propertyKey)])

\* AutoApplyDecorators(fieldMappings)(target) for a newly defined target
AutoApplyDecorators(fieldMappings) ==
    LET start == [metadata |-> NoMetadata, warnings |-> <<>>, calls |-> <<>>,
                  err |-> NoError]
    IN IF ~Truthy(fieldMappings)
       THEN [start EXCEPT !.warnings =
                <<[message |-> "No field mappings provided to @AutoApplyDecorators",
                   field |-> ""]>>]
       ELSE ApplyEntries(ObjectEntries(fieldMappings), 1, start)

(* class-validator, as field.decorator.ts imports it, run by the            *)
(* ValidationPipe of pipes/validation.pipe.ts.                              *)

\* object[key]
Property(object, key) == IF key \in DOMAIN object THEN object[key] ELSE Undefined

\* The order in which a request body lists its fields
FIELDS == <<"amount", "currency", "customerEmail", "customerName", "description">>

IsEmail(value) ==
    /\ value.t = "string"
    /\ \E i \in 2..(Len(value.s) - 1) : value.s[i] = "@"

\* Whether `value` satisfies the registered validator v
Passes(v, value) ==
    CASE v.name = "IsString" -> value.t = "string"
      [] v.name = "IsNumber" -> value.t = "number"
      [] v.name = "IsEmail" -> IsEmail(value)
      [] v.name = "IsNotEmpty" -> value \notin {Str(<<>>), Null, Undefined}
      [] v.name = "MinLength" -> value.t = "string" /\ Len(value.s) >= v.arg.n
      [] v.name = "MaxLength" -> value.t = "string" /\ Len(value.s) <= v.arg.n
      [] v.name = "Min" -> value.t = "number" /\ value.n >= v.arg.n
      [] v.name = "Max" -> value.t = "number" /\ value.n <= v.arg.n
      [] OTHER -> TRUE

\* IsOptional: the validators of a property are skipped when its value is
\* undefined or null
Skipped(validators, object, key) ==
    /\ Property(object, key) \in {Undefined, Null}
    /\ \E i \in 1..Len(validators) :
          validators[i].property = key /\ validators[i].name = "IsOptional"

\* ValidationPipe.transform(object) for the class carrying `meta`: with
\* whitelist and forbidNonWhitelisted a field no decorator names is refused,
\* then every registered validator of every field runs; any failure makes
\* the BadRequest that lists them all
validate(meta, object) ==
    LET validators == meta.validators
        decorated == {validators[i].property : i \in 1..Len(validators)}
        unknown == SelectSeq(FIELDS, LAMBDA k : k \in DOMAIN object /\ k \notin decorated)
        failed == SelectSeq(validators,
                            LAMBDA v : /\ v.name # "IsOptional"
                                       /\ ~Skipped(validators, object, v.property)
                                       /\ ~Passes(v, Property(object, v.property)))
        messages ==
            [i \in 1..Len(unknown) |->
                [property |-> unknown[i], constraint |-> "whitelistValidation"]]
            \o [i \in 1..Len(failed) |->
                [property |-> failed[i].property, constraint |-> failed[i].name]]
    IN [err |-> IF messages = <<>> THEN NoError
                ELSE BadRequestException("Bad Request Exception", 0),
        messages |-> messages]

(* crud-controller.decorator.ts: AutoResponse(responseMappings) applied to  *)
(* a class.                                                                 *)

\* String, Number, Boolean
Ctor(name) == [t |-> "function", name |-> name]

\* Variant: the example's type is taken even when config.type is given
inferFieldType_overrides(config) ==
    LET explicit == Property(config, "type")
        example == Property(config, "example")
    IN IF example # Undefined /\ example # Null
       THEN CASE typeof(example) = "string" -> Ctor("String")
              [] typeof(example) = "number" -> Ctor("Number")
              [] typeof(example) = "boolean" -> Ctor("Boolean")
              [] OTHER -> explicit
       ELSE explicit

\* fieldType: config.type, or the constructor the example's typeof names
inferFieldType(config) ==
    LET explicit == Property(config, "type")
        example == Property(config, "example")
    IN IF ~Truthy(explicit) /\ example # Undefined /\ example # Null
       THEN CASE typeof(example) = "string" -> Ctor("String")
              [] typeof(example) = "number" -> Ctor("Number")
              [] typeof(example) = "boolean" -> Ctor("Boolean")
              [] OTHER -> explicit
       ELSE explicit

\* The options object passed to ApiProperty for one field
ApiPropertyOptions(config) ==
    LET fieldType == inferFieldType(config)
        named == [description |-> Property(config, "description"),
                  example |-> Property(config, "example"),
                  required |-> Property(config, "required")]
        withType == Spread(named, IF Truthy(fieldType) THEN [type |-> fieldType]
                                  ELSE EmptyObject)
        withEnum == Spread(withType, IF Truthy(Property(config, "enum"))
                                     THEN [enum |-> Property(config, "enum")]
                                     ELSE EmptyObject)
    IN Spread(withEnum, IF Truthy(Property(config, "isArray"))
                        THEN [isArray |-> Property(config, "isArray")]
                        ELSE EmptyObject)

\* What the anonymous class expression `class extends constructor` reports
\* as its name: the empty string; the name the compiler gives it when it
\* emits a function for the class; or, on an engine that gives an anonymous
\* class no name of its own, the name it inherits from `constructor`
AnonymousClassNames(constructor) == {"", "class_1", constructor}

\* AutoResponse(responseMappings)(constructor) for a newly defined class;
\* `name` is the name of the class expression it returns
AutoResponseApply(responseMappings, name) ==
    IF Truthy(responseMappings)
    THEN LET entries == ObjectEntries(responseMappings)
             keys == {entries[i][1] : i \in 1..Len(entries)}
             last(k) == CHOOSE i \in 1..Len(entries) :
                            /\ entries[i][1] = k
                            /\ \A j \in (i + 1)..Len(entries) : entries[j][1] # k
         IN [metadata |-> [validators |-> <<>>,
                           properties |->
                               [k \in keys |-> ApiPropertyOptions(entries[last(k)][2].o)]],
             warnings |-> <<>>,
             enhanced |-> [name |-> name]]
    ELSE [metadata |-> [validators |-> <<>>, properties |-> EmptyObject],
          warnings |-> <<[message |-> "No response mappings provided to @AutoResponse",
                          field |-> ""]>>,
          enhanced |-> [name |-> name]]

\* The decorated classes of the payment resource, each with the constructor
\* its decorator gives it and the class it extends
SHAPES ==
    {[name |-> "Payment", decorator |-> "AutoEntity", base |-> "Object"],
     [name |-> "Payment", decorator |-> "AutoEntitySuperArgs", base |-> "Object"],
     [name |-> "PaymentResponseDto", decorator |-> "AutoResponse",
      base |-> "BaseResponseDto"],
     [name |-> "PaymentCreatedResponseDto", decorator |-> "AutoResponse",
      base |-> "BaseResponseDto"]}

\* Sample partial objects and argument lists
PARTIALS ==
    {EmptyObject,
     [id |-> Num(2)],
     [amount |-> Num(10), status |-> Str(<<"p">>)],
     [id |-> Num(1), amount |-> Num(10), createdAt |-> Num(0), updatedAt |-> Num(1)]}
VALUES ==
    {Undefined, Null, Num(0), Num(5), Str(<<>>), Str(<<"a", "b">>),
     Bool(TRUE), Bool(FALSE)} \cup {Obj(p) : p \in PARTIALS}
ARGUMENTS ==
    {<<>>} \cup {<<v>> : v \in VALUES}
           \cup {<<Obj([id |-> Num(2)]), Obj([id |-> Num(1)])>>}

\* new Shape(...args)
construct(shape, args) ==
    CASE shape.decorator = "AutoEntity" -> AutoEntity(shape.base, args)
      [] shape.decorator = "AutoEntitySuperArgs" -> AutoEntitySuperArgs(shape.base, args)
      [] shape.decorator = "AutoResponse" -> AutoResponseConstructor(shape.base, args)

Construct(shape, args) ==
    /\ result = NoResult
    /\ result' = [op |-> "construct", shape |-> shape, args |-> args,
                  instance |-> construct(shape, args)]
    /\ UNCHANGED <<metadata, warnings, storeVars>>

\* new Shape({ ...instance }) for the instance constructed last
Reconstruct ==
    /\ result.op = "construct"
    /\ result' = [op |-> "reconstruct", shape |-> result.shape, args |-> result.args,
                  first |-> result.instance,
                  instance |-> construct(result.shape,
                                         <<Obj(Spread(EmptyObject, result.instance))>>)]
    /\ UNCHANGED <<metadata, warnings, storeVars>>

\* The classes an entity decorator may be applied to: one whose constructor
\* sets no field (Payment) and one whose constructor copies its argument
BASES == {"Object", "BaseResponseDto"}

\* One class under each of the two @AutoEntity decorators of
\* auto-entity.decorator.ts, both constructed from the same argument list
ConstructBoth(base, args) ==
    /\ result = NoResult
    /\ result' = [op |-> "AutoEntity", base |-> base, args |-> args,
                  superArgs |-> AutoEntitySuperArgs(base, args),
                  superNone |-> AutoEntity(base, args)]
    /\ UNCHANGED <<metadata, warnings, storeVars>>

\* Sample rule producers: the bounds are given or not; 1 stands for the
\* 0.01 of the payment mappings over whole amounts
NUMBER_RULES ==
    {[kind |-> "NumberField", required |-> r, min |-> lo, max |-> hi] :
        r \in BOOLEAN, lo \in {Undefined, Num(1)}, hi \in {Undefined, Num(100)}}
STRING_RULES ==
    {[kind |-> "StringField", required |-> r, min |-> lo, max |-> hi] :
        r \in BOOLEAN, lo \in {Undefined, Num(3)}, hi \in {Undefined, Num(3)}}
EmailRule(required) ==
    [kind |-> "EmailField", required |-> required, min |-> Undefined, max |-> Undefined]

\* Entries that are not zero-argument functions producing a rule
MALFORMED == {Undefined, Str(<<"x">>), Producer([kind |-> "nothing"])}

AMOUNT_ENTRIES == {Producer(rule) : rule \in NUMBER_RULES} \cup MALFORMED
CURRENCY_ENTRIES == {Producer(rule) : rule \in STRING_RULES} \cup MALFORMED

\* The payment resource's own tables
CreatePaymentMapping ==
    Mapping(<<
        <<"amount", Producer([kind |-> "NumberField", required |-> TRUE,
                              min |-> Num(1), max |-> Undefined])>>,
        <<"currency", Producer([kind |-> "StringField", required |-> TRUE,
                                min |-> Num(3), max |-> Num(3)])>>,
        <<"customerEmail", Producer(EmailRule(TRUE))>>,
        <<"customerName", Producer([kind |-> "StringField", required |-> TRUE,
                                    min |-> Undefined, max |-> Undefined])>>,
        <<"description", Producer([kind |-> "StringField", required |-> FALSE,
                                   min |-> Undefined, max |-> Undefined])>> >>)
UpdatePaymentMapping ==
    Mapping(<<
        <<"amount", Producer([kind |-> "NumberField", required |-> FALSE,
                              min |-> Num(1), max |-> Undefined])>>,
        <<"currency", Producer([kind |-> "StringField", required |-> FALSE,
                                min |-> Num(3), max |-> Num(3)])>>,
        <<"customerEmail", Producer(EmailRule(FALSE))>>,
        <<"customerName", Producer([kind |-> "StringField", required |-> FALSE,
                                    min |-> Undefined, max |-> Undefined])>>,
        <<"description", Producer([kind |-> "StringField", required |-> FALSE,
                                   min |-> Undefined, max |-> Undefined])>> >>)

FIELD_MAPPINGS ==
    {Undefined, Null, CreatePaymentMapping, UpdatePaymentMapping}
    \cup {Mapping(<< <<"amount", a>> >>) : a \in AMOUNT_ENTRIES}
    \cup {Mapping(<< <<"currency", c>> >>) : c \in CURRENCY_ENTRIES}
    \cup {Mapping(<< <<"amount", a>>, <<"currency", c>> >>) :
            a \in AMOUNT_ENTRIES, c \in CURRENCY_ENTRIES}
    \cup {Mapping(<< <<"currency", c>>, <<"amount", a>> >>) :
            a \in AMOUNT_ENTRIES, c \in CURRENCY_ENTRIES}

\* Sample request bodies: any subset of the fields, each with a sample value
SampleOf(key) ==
    CASE key = "amount" -> {Num(0), Num(10)}
      [] key = "currency" -> {Str(<<>>), Str(<<"u", "s", "d">>)}
      [] key = "customerEmail" -> {Str(<<"a", "@", "b">>)}
      [] OTHER -> {Str(<<"n">>)}
BODIES ==
    UNION {{o \in [D -> UNION {SampleOf(k) : k \in D}] :
                \A k \in D : o[k] \in SampleOf(k)} :
           D \in SUBSET {FIELDS[i] : i \in 1..Len(FIELDS)}}

\* Sample response field configurations and tables
EXAMPLES ==
    {Undefined, Null, Str(<<"U", "S", "D">>), Num(99), Bool(TRUE), Obj(EmptyObject)}
CONFIGS ==
    {Spread(Spread([description |-> Str(<<"d">>), required |-> Bool(TRUE)], e), ty) :
        e \in {EmptyObject} \cup {[example |-> v] : v \in EXAMPLES},
        ty \in {EmptyObject, [type |-> Ctor("String")], [type |-> Ctor("Number")],
                [enum |-> Obj([PENDING |-> Str(<<"p">>)])]}}
PaymentResponseMapping ==
    Mapping(<<
        <<"amount", Obj([description |-> Str(<<"d">>), example |-> Num(99),
                         required |-> Bool(TRUE), type |-> Ctor("Number")])>>,
        <<"currency", Obj([description |-> Str(<<"d">>),
                           example |-> Str(<<"U", "S", "D">>),
                           required |-> Bool(TRUE), type |-> Ctor("String")])>>,
        <<"status", Obj([description |-> Str(<<"d">>),
                         example |-> Str(<<"c">>), required |-> Bool(TRUE),
                         enum |-> Obj([PENDING |-> Str(<<"p">>)])])>>,
        <<"description", Obj([description |-> Str(<<"d">>),
                              example |-> Str(<<"P">>),
                              required |-> Bool(FALSE), type |-> Ctor("String")])>> >>)
RESPONSE_MAPPINGS ==
    {Undefined, Null, PaymentResponseMapping}
    \cup {Mapping(<< <<"amount", Obj(c)>> >>) : c \in CONFIGS}
    \cup {Mapping(<< <<"amount", Obj(c)>>, <<"status", Obj(d)>> >>) :
            c \in CONFIGS, d \in CONFIGS}

\* @AutoApplyDecorators(fieldMappings) on a newly defined class
DefineInput(fieldMappings) ==
    LET applied == AutoApplyDecorators(fieldMappings)
    IN /\ result = NoResult
       /\ metadata' = applied.metadata
       /\ warnings' = applied.warnings
       /\ result' = [op |-> "AutoApplyDecorators", mapping |-> fieldMappings,
                     err |-> applied.err, calls |-> applied.calls]
       /\ UNCHANGED storeVars

\* A request body reaches the ValidationPipe of a class whose definition
\* completed and attached validators
Validate(object) ==
    /\ result.op = "AutoApplyDecorators"
    /\ result.err = NoError
    /\ metadata.validators # <<>>
    /\ LET validated == validate(metadata, object)
       IN result' = [op |-> "validate", mapping |-> result.mapping, object |-> object,
                     err |-> validated.err, messages |-> validated.messages]
    /\ UNCHANGED <<metadata, warnings, storeVars>>

\* @AutoResponse(responseMappings) on a newly defined class named `constructor`
DefineResponse(constructor, responseMappings, name) ==
    LET applied == AutoResponseApply(responseMappings, name)
    IN /\ result = NoResult
       /\ metadata' = applied.metadata
       /\ warnings' = applied.warnings
       /\ result' = [op |-> "AutoResponse", constructor |-> constructor,
                     mapping |-> responseMappings, err |-> NoError,
                     enhanced |-> applied.enhanced]
       /\ UNCHANGED storeVars

NextShapes ==
    \/ \E shape \in SHAPES, args \in ARGUMENTS : Construct(shape, args)
    \/ Reconstruct
    \/ \E base \in BASES, args \in ARGUMENTS : ConstructBoth(base, args)
    \/ \E fieldMappings \in FIELD_MAPPINGS : DefineInput(fieldMappings)
    \/ \E object \in BODIES : Validate(object)
    \/ \E responseMappings \in RESPONSE_MAPPINGS,
          name \in AnonymousClassNames("PaymentResponseDto") :
          DefineResponse("PaymentResponseDto", responseMappings, name)

SpecShapes == Init /\ [][NextShapes]_vars

----------------------------------------------------------------------------
(* Vocabulary of the properties.  In a state where outcome.op names a      *)
(* handler, that handler has just run: payments and idCounter are the      *)
(* store as it left it, outcome.before the store as it found it.           *)

LegalTransitions ==
    {<<PENDING, COMPLETED>>, <<PENDING, FAILED>>, <<COMPLETED, REFUNDED>>}

Holds(ps, id) == \E i \in 1..Len(ps) : ps[i].id = id
Stored(ps, id) == ps[CHOOSE i \in 1..Len(ps) : ps[i].id = id]
IdsOf(ps) == [i \in 1..Len(ps) |-> ps[i].id]
SetsStatus(dto) == "status" \in DOMAIN dto /\ dto.status # ""
Supported(currency) ==
    toUpperCase(currency) \in {<<"U", "S", "D">>, <<"E", "U", "R">>, <<"G", "B", "P">>}
StoreUntouched ==
    payments = outcome.before.payments /\ idCounter = outcome.before.idCounter

----------------------------------------------------------------------------
(* C1: update(id, dto) with a non-empty dto.status succeeds exactly when    *)
(* (current status, dto.status) is pending->completed, pending->failed or   *)
(* completed->refunded, and then stores the new status; for every other     *)
(* pair it raises BadRequest and leaves the payments list as it was.        *)
C1_StatusTransitionRule ==
    (/\ outcome.op = "updateEntity"
     /\ Holds(outcome.before.payments, outcome.id)
     /\ SetsStatus(outcome.dto))
    => IF <<Stored(outcome.before.payments, outcome.id).status, outcome.dto.status>>
            \in LegalTransitions
       THEN /\ outcome.err = NoError
            /\ Stored(payments, outcome.id).status = outcome.dto.status
       ELSE /\ outcome.err.kind = "BadRequest"
            /\ payments = outcome.before.payments

\* C1 witness: an update from pending straight to refunded was rejected
C1_Witness ==
    /\ outcome.op = "updateEntity"
    /\ Holds(outcome.before.payments, outcome.id)
    /\ Stored(outcome.before.payments, outcome.id).status = PENDING
    /\ SetsStatus(outcome.dto)
    /\ outcome.dto.status = REFUNDED
    /\ outcome.err.kind = "BadRequest"

(* C2: no two stored payments have the same id, and update, processPayment  *)
(* and refundPayment leave the id at every position of the list as it was.  *)
C2_UniqueStableIds ==
    /\ \A i, j \in 1..Len(payments) : i # j => payments[i].id # payments[j].id
    /\ outcome.op \in {"updateEntity", "processPayment", "refundPayment"}
       => IdsOf(payments) = IdsOf(outcome.before.payments)

\* C2 witness: two payments are stored and one of them has just been updated
C2_Witness ==
    /\ Len(payments) = 2
    /\ outcome.op = "updateEntity"
    /\ outcome.err = NoError

C4_InvalidCreateMutatesNothing ==
    (/\ outcome.op = "createEntity"
     /\ (outcome.dto.amount <= 0 \/ ~Supported(outcome.dto.currency)))
    => /\ outcome.err.kind = "BadRequest"
       /\ outcome.response = NoResponse
       /\ StoreUntouched
       /\ issued = outcome.before.issued

\* C4 witness: a create of amount 0 was rejected while a payment was stored
C4_Witness ==
    /\ outcome.op = "createEntity"
    /\ outcome.dto.amount = 0
    /\ outcome.err = BadRequestException("Payment amount must be positive", 0)
    /\ Len(payments) >= 1

(* C5: remove of a completed or refunded payment fails with BadRequest and  *)
(* leaves the list as it was; a payment leaves the store only by a remove   *)
(* of its id while its status is pending or failed.                         *)
C5_CompletedNotRemovable ==
    /\ (/\ outcome.op = "removeEntity"
        /\ Holds(outcome.before.payments, outcome.id)
        /\ Stored(outcome.before.payments, outcome.id).status \in {COMPLETED, REFUNDED})
       => /\ outcome.err.kind = "BadRequest"
          /\ payments = outcome.before.payments
    /\ outcome.op # "none"
       => \A i \in 1..Len(outcome.before.payments) :
            ~Holds(payments, outcome.before.payments[i].id)
            => /\ outcome.op = "removeEntity"
               /\ outcome.id = outcome.before.payments[i].id
               /\ outcome.before.payments[i].status \in {PENDING, FAILED}

\* C5 witness: the remove of a completed payment was refused
C5_Witness ==
    /\ outcome.op = "removeEntity"
    /\ outcome.err = BadRequestException("Cannot delete completed payments", 0)
    /\ Holds(payments, outcome.id)
    /\ Stored(payments, outcome.id).status = COMPLETED

(* C6: findOne of an id no stored payment has fails with the NotFound that  *)
(* names Payment and carries the id, gives no response and leaves the       *)
(* store as it was; for a stored id it gives the PaymentResponseDto whose   *)
(* fields are exactly those of that payment.                                *)
C6_FindOneNotFound ==
    outcome.op = "findOneEntity"
    => /\ StoreUntouched
       /\ IF Holds(outcome.before.payments, outcome.id)
          THEN /\ outcome.err = NoError
               /\ outcome.response =
                    [class |-> "PaymentResponseDto",
                     fields |-> Stored(outcome.before.payments, outcome.id)]
          ELSE /\ outcome.err =
                    [kind |-> "NotFound", message |-> "Payment with ID not found",
                     id |-> outcome.id]
               /\ outcome.response = NoResponse

\* C6 witness: id 999 was looked up in an empty store
C6_Witness ==
    /\ outcome.op = "findOneEntity"
    /\ outcome.id = 999
    /\ outcome.err.kind = "NotFound"
    /\ outcome.err.id = 999
    /\ payments = <<>>

(* C7: update and remove of an id no stored payment has fail with NotFound, *)
(* whatever the dto asks for, and change neither the list nor the counter.  *)
C7_MissingIdNotFound ==
    (/\ outcome.op \in {"updateEntity", "removeEntity"}
     /\ ~Holds(outcome.before.payments, outcome.id))
    => /\ outcome.err.kind = "NotFound"
       /\ StoreUntouched

\* C7 witness: an update that asks for an illegal status named a missing id
\* while payments were stored
C7_Witness ==
    /\ outcome.op = "updateEntity"
    /\ ~Holds(outcome.before.payments, outcome.id)
    /\ SetsStatus(outcome.dto)
    /\ outcome.dto.status = "cancelled"
    /\ outcome.err.kind = "NotFound"
    /\ Len(payments) >= 1

(* C8: every findAllEntities call, calls in flight together included, gives *)
(* a list response whose total is the length of its items and the number of *)
(* payments the store holds when the response is built, with one            *)
(* PaymentResponseDto per stored payment in store order; what other calls   *)
(* did to the list between findAll's return and the building of the         *)
(* response is in the response, and the call itself changes nothing.        *)
C8_ListCountMatchesItems ==
    outcome.op = "findAllEntities"
    => /\ outcome.err = NoError
       /\ outcome.response.class = "PaymentListResponseDto"
       /\ outcome.response.total = Len(outcome.response.items)
       /\ outcome.response.total = Len(outcome.before.payments)
       /\ \A i \in 1..Len(outcome.before.payments) :
            outcome.response.items[i] =
                [class |-> "PaymentResponseDto", fields |-> outcome.before.payments[i]]
       /\ StoreUntouched

\* C8 witness: a list response of two items was built for a call that had
\* received a list of one payment from findAll
C8_Witness ==
    /\ outcome.op = "findAllEntities"
    /\ outcome.held.op = "findAllEntities"
    /\ outcome.held.count = 1
    /\ Len(outcome.response.items) = 2
    /\ outcome.response.total = 2

\* C8 as stated: the total is the length of the items and the number of
\* payments the store held when store.findAll() returned
C8_CountAsWhenFindAllReturned ==
    (outcome.op = "findAllEntities" /\ outcome.held.op = "findAllEntities")
    => /\ outcome.response.total = Len(outcome.response.items)
       /\ outcome.response.total = outcome.held.count

(* C9: each of the five orchestrator operations issues exactly one store    *)
(* call, its own; when the store call fails the operation fails with that   *)
(* failure and builds no response.                                          *)
C9_OneStoreCallNoRetry ==
    LET ps == outcome.before.payments
        ctr == outcome.before.idCounter
        storeErr ==
            CASE outcome.op = "createEntity" ->
                    create(ps, ctr, outcome.dto, now, CHOOSE r \in RANDOMS : TRUE).err
              [] outcome.op = "findAllEntities" -> findAll(ps, ctr).err
              [] outcome.op = "findOneEntity" -> findOne(ps, ctr, outcome.id).err
              [] outcome.op = "updateEntity" ->
                    update(ps, ctr, outcome.id, outcome.dto, now).err
              [] outcome.op = "removeEntity" -> remove(ps, ctr, outcome.id).err
    IN outcome.op \in {"createEntity", "findAllEntities", "findOneEntity",
                       "updateEntity", "removeEntity"}
       => /\ <<outcome.op, outcome.calls>> \in
                {<<"createEntity", <<"create">> >>,
                 <<"findAllEntities", <<"findAll">> >>,
                 <<"findOneEntity", <<"findOne">> >>,
                 <<"updateEntity", <<"update">> >>,
                 <<"removeEntity", <<"remove">> >>}
          /\ outcome.err = storeErr
          /\ outcome.err # NoError => outcome.response = NoResponse

\* C9 witness: updateEntity failed on the store's BadRequest after one call
C9_Witness ==
    /\ outcome.op = "updateEntity"
    /\ outcome.err.kind = "BadRequest"
    /\ outcome.calls = <<"update">>
    /\ outcome.response = NoResponse

(* C10: createEntity wraps the created entity in the response class that    *)
(* findOneEntity and updateEntity use (getResponseClass).                   *)
C10_CreateUsesSingleResponse ==
    (outcome.op = "createEntity" /\ outcome.err = NoError)
    => outcome.response.class = getResponseClass

C12_ConcurrentCreatesDistinctIds ==
    /\ \A i, j \in 1..Len(payments) : i # j => payments[i].id # payments[j].id
    /\ (outcome.op = "createEntity" /\ outcome.err = NoError)
       => /\ outcome.response.fields.id \notin outcome.before.issued
          /\ payments = Append(outcome.before.payments, outcome.response.fields)
          /\ Cardinality({i \in 1..Len(payments) :
                            payments[i] = outcome.response.fields}) = 1

\* C12 witness: a create resumed from its await and completed while another
\* create was still suspended at its own
C12_Witness ==
    /\ outcome.op = "createEntity"
    /\ outcome.err = NoError
    /\ outcome.held.op = "createEntity"
    /\ \E c \in CLIENTS : inflight[c].op = "createEntity"

\* C13 as stated: an instance constructed from an object has every field of
\* that object, the base fields id, createdAt and updatedAt among them; an
\* instance constructed from no argument or from a non-object has no field.
C13_ConstructCopiesPartial ==
    result.op = "construct"
    => LET partial == Arg(result.args, 1)
       IN IF partial.t = "object"
          THEN \A k \in DOMAIN partial.o :
                  k \in DOMAIN result.instance /\ result.instance[k] = partial.o[k]
          ELSE DOMAIN result.instance = {}

(* C14: for every shape constructor and every argument list, constructing   *)
(* an instance, spreading its fields into a plain object and constructing   *)
(* again from that object gives an instance with the same fields and values.*)
C14_ReconstructionIdempotent ==
    result.op = "reconstruct"
    => /\ DOMAIN result.instance = DOMAIN result.first
       /\ \A k \in DOMAIN result.first : result.instance[k] = result.first[k]

\* C14 witness: a response built from a payment with the base fields was
\* built again from its own fields
C14_Witness ==
    /\ result.op = "reconstruct"
    /\ result.shape.name = "PaymentResponseDto"
    /\ {"id", "createdAt", "updatedAt", "amount"} \subseteq DOMAIN result.first
    /\ result.instance = result.first

\* The entries of the mapping table the last definition was given
EntriesOf(mapping) == IF Truthy(mapping) THEN ObjectEntries(mapping) ELSE <<>>

\* An entry that is not a zero-argument function producing a rule
IsMalformed(entry) == typeof(entry) # "function" \/ typeof(Call(entry)) # "function"

\* Whether some message of the last validation names the field
Names(messages, key) == \E j \in 1..Len(messages) : messages[j].property = key

\* A response field configuration with no explicit kind and an example that
\* is absent, null or neither string, number nor boolean
Uninferable(config) ==
    /\ DOMAIN config \cap {"type", "enum", "isArray"} = {}
    /\ Property(config, "example").t \notin {"string", "number", "boolean"}

\* C15 as stated: the class AutoResponse returns reports the declared name of
\* the class it was applied to.
C15_EnhancedKeepsName ==
    result.op = "AutoResponse" => result.enhanced.name = result.constructor

\* C16 as stated: AutoApplyDecorators never throws, and for an absent or
\* malformed mapping table it leaves the class undecorated and warns.
C16_ApplierNeverThrows ==
    result.op = "AutoApplyDecorators"
    => /\ result.err = NoError
       /\ (\/ ~Truthy(result.mapping)
           \/ \E i \in 1..Len(EntriesOf(result.mapping)) :
                 IsMalformed(EntriesOf(result.mapping)[i][2]))
          => /\ metadata = NoMetadata
             /\ Len(warnings) >= 1

(* C17: once AutoApplyDecorators has applied a mapping table to a class, a  *)
(* request body lacking a field the table declares required is rejected     *)
(* with the BadRequest of the validation pipe, and one of its messages names *)
(* that field.                                                              *)
C17_MissingRequiredRejected ==
    result.op = "validate"
    => \A i \in 1..Len(EntriesOf(result.mapping)) :
          LET key == EntriesOf(result.mapping)[i][1]
              rule == EntriesOf(result.mapping)[i][2].does
          IN (rule.required /\ key \notin DOMAIN result.object)
             => /\ result.err.kind = "BadRequest"
                /\ Names(result.messages, key)

\* C17 witness: a body with a valid amount and no currency was validated
\* against the create table and rejected
C17_Witness ==
    /\ result.op = "validate"
    /\ result.mapping = CreatePaymentMapping
    /\ "amount" \in DOMAIN result.object
    /\ result.object["amount"] = Num(10)
    /\ "currency" \notin DOMAIN result.object
    /\ result.err.kind = "BadRequest"
    /\ Names(result.messages, "currency")
    /\ ~Names(result.messages, "amount")

(* C18: a StringField or NumberField rule built with required = false, with *)
(* or without a length or range bound, raises no message for an absent      *)
(* field; one built with required = true raises a message for it.           *)
C18_OptionalAbsentAccepted ==
    result.op = "validate"
    => \A i \in 1..Len(EntriesOf(result.mapping)) :
          LET key == EntriesOf(result.mapping)[i][1]
              rule == EntriesOf(result.mapping)[i][2].does
          IN (rule.kind \in {"StringField", "NumberField"}
              /\ key \notin DOMAIN result.object)
             => (Names(result.messages, key) <=> rule.required)

\* C18 witness: a body without amount passed a table whose amount rule is
\* optional and has both range bounds
C18_Witness ==
    /\ result.op = "validate"
    /\ \E i \in 1..Len(EntriesOf(result.mapping)) :
          /\ EntriesOf(result.mapping)[i][1] = "amount"
          /\ EntriesOf(result.mapping)[i][2].does =
                [kind |-> "NumberField", required |-> FALSE,
                 min |-> Num(1), max |-> Num(100)]
    /\ "amount" \notin DOMAIN result.object
    /\ "currency" \in DOMAIN result.object
    /\ result.err = NoError

(* C19: AutoResponse documents every field of its mapping table: with the   *)
(* explicit type when the configuration gives one, otherwise with String,   *)
(* Number or Boolean when the example is a string, a number or a boolean,   *)
(* and otherwise (example absent, null or of another type) without a type;  *)
(* it raises no error.                                                      *)
C19_DocumentedType ==
    result.op = "AutoResponse"
    => /\ result.err = NoError
       /\ \A i \in 1..Len(EntriesOf(result.mapping)) :
            LET key == EntriesOf(result.mapping)[i][1]
                config == EntriesOf(result.mapping)[i][2].o
                example == Property(config, "example")
            IN /\ key \in DOMAIN metadata.properties
               /\ metadata.properties[key].example = example
               /\ IF "type" \in DOMAIN config
                  THEN metadata.properties[key].type = config.type
                  ELSE CASE example.t = "string" ->
                              metadata.properties[key].type = Ctor("String")
                         [] example.t = "number" ->
                              metadata.properties[key].type = Ctor("Number")
                         [] example.t = "boolean" ->
                              metadata.properties[key].type = Ctor("Boolean")
                         [] OTHER -> "type" \notin DOMAIN metadata.properties[key]

\* C19 witness: of two fields, one was documented with the type inferred from
\* a number example and one, whose example is null, without a type
C19_Witness ==
    /\ result.op = "AutoResponse"
    /\ DOMAIN metadata.properties = {"amount", "status"}
    /\ "type" \notin DOMAIN EntriesOf(result.mapping)[1][2].o
    /\ metadata.properties["amount"].example = Num(99)
    /\ metadata.properties["amount"].type = Ctor("Number")
    /\ metadata.properties["status"].example = Null
    /\ "type" \notin DOMAIN metadata.properties["status"]

\* C20 as stated: for every field whose configuration gives no kind and whose
\* example allows none to be inferred, AutoResponse documents the field and
\* emits a warning for it.
C20_UninferableKindWarned ==
    result.op = "AutoResponse"
    => \A i \in 1..Len(EntriesOf(result.mapping)) :
          LET key == EntriesOf(result.mapping)[i][1]
              config == EntriesOf(result.mapping)[i][2].o
          IN Uninferable(config)
             => /\ key \in DOMAIN metadata.properties
                /\ \E j \in 1..Len(warnings) : warnings[j].field = key

\* A mapping table whose every entry is a rule producer
WellFormed(mapping) ==
    \A i \in 1..Len(EntriesOf(mapping)) : ~IsMalformed(EntriesOf(mapping)[i][2])

\* The position of a field in the mapping table, 0 for a field it lacks
Declared(mapping, key) ==
    IF \E i \in 1..Len(EntriesOf(mapping)) : EntriesOf(mapping)[i][1] = key
    THEN CHOOSE i \in 1..Len(EntriesOf(mapping)) : EntriesOf(mapping)[i][1] = key
    ELSE 0

\* The checks of a rule, in the order the rule lists them
ChecksOf(rule) == SelectSeq(rule.does, LAMBDA d : d.name # "ApiProperty")

\* Whether a value is rejected by a rule: some check of it fails, unless the
\* rule is optional and the value is absent
Rejects(rule, value) ==
    /\ ~(/\ value \in {Undefined, Null}
         /\ \E j \in 1..Len(rule.does) : rule.does[j].name = "IsOptional")
    /\ \E j \in 1..Len(rule.does) :
          /\ rule.does[j].name \notin {"ApiProperty", "IsOptional"}
          /\ ~Passes(rule.does[j], value)

(* C21: for a mapping table of rule producers AutoApplyDecorators calls     *)
(* every producer exactly once, in the order Object.entries lists the       *)
(* table, and attaches what each produced to the field of its key (the      *)
(* documented property and the checks, in the rule's order); when a body is *)
(* validated, every declared field a rule rejects is named in the one       *)
(* failure, and the messages of declared fields follow the table's order.   *)
C21_ProducersOnceInTableOrder ==
    /\ (result.op = "AutoApplyDecorators" /\ WellFormed(result.mapping))
       => LET entries == EntriesOf(result.mapping)
          IN /\ result.err = NoError
             /\ result.calls = [i \in 1..Len(entries) |-> entries[i][1]]
             /\ DOMAIN metadata.properties = {entries[i][1] : i \in 1..Len(entries)}
             /\ \A i \in 1..Len(entries) :
                  LET attached == SelectSeq(metadata.validators,
                                            LAMBDA v : v.property = entries[i][1])
                      checks == ChecksOf(Call(entries[i][2]))
                  IN /\ Len(attached) = Len(checks)
                     /\ \A j \in 1..Len(checks) :
                          /\ attached[j].name = checks[j].name
                          /\ attached[j].arg = checks[j].arg
    /\ result.op = "validate"
       => LET entries == EntriesOf(result.mapping)
          IN /\ \A i \in 1..Len(entries) :
                  Rejects(Call(entries[i][2]), Property(result.object, entries[i][1]))
                  => /\ result.err.kind = "BadRequest"
                     /\ Names(result.messages, entries[i][1])
             /\ \A a, b \in 1..Len(result.messages) :
                  (/\ a < b
                   /\ Declared(result.mapping, result.messages[a].property) > 0
                   /\ Declared(result.mapping, result.messages[b].property) > 0)
                  => Declared(result.mapping, result.messages[a].property)
                        <= Declared(result.mapping, result.messages[b].property)

\* C21 witness: a body listing amount before currency, both rejected, was
\* validated against a table that declares currency before amount, and the
\* one failure names currency first and amount after it
C21_Witness ==
    /\ result.op = "validate"
    /\ Len(EntriesOf(result.mapping)) = 2
    /\ EntriesOf(result.mapping)[1][1] = "currency"
    /\ EntriesOf(result.mapping)[2][1] = "amount"
    /\ DOMAIN result.object = {"amount", "currency"}
    /\ result.err.kind = "BadRequest"
    /\ result.messages[1].property = "currency"
    /\ result.messages[Len(result.messages)].property = "amount"

(* C22: with calls served one at a time, a payment enters the store only by *)
(* a create and with status pending; the stored status of a payment then    *)
(* stays or moves by pending->completed, pending->failed or                 *)
(* completed->refunded, and the status of a failed or refunded payment      *)
(* stays as it is.                                                          *)
C22_StatusPathSequential ==
    outcome.op # "none"
    => \A i \in 1..Len(payments) :
          IF Holds(outcome.before.payments, payments[i].id)
          THEN LET old == Stored(outcome.before.payments, payments[i].id).status
               IN /\ \/ payments[i].status = old
                     \/ <<old, payments[i].status>> \in LegalTransitions
                  /\ old \in {FAILED, REFUNDED} => payments[i].status = old
          ELSE /\ outcome.op = "createEntity"
               /\ payments[i].status = PENDING

\* C22 witness: a refund asked for a failed payment was refused and the
\* payment is still failed
C22_Witness ==
    /\ outcome.op = "refundPayment"
    /\ outcome.err.kind = "BadRequest"
    /\ Holds(payments, outcome.id)
    /\ Stored(payments, outcome.id).status = FAILED
    /\ Stored(outcome.before.payments, outcome.id).status = FAILED

\* C23 as stated: with update, processPayment, refundPayment and remove calls
\* on one id in flight together, every step of the store moves the status of
\* a payment it keeps only by pending->completed, pending->failed or
\* completed->refunded, and removes no payment that is completed or refunded
\* when it is removed.
C23_StatusPathUnderInterleaving ==
    outcome.op # "none"
    => \A i \in 1..Len(outcome.before.payments) :
          LET old == outcome.before.payments[i]
          IN IF Holds(payments, old.id)
             THEN \/ Stored(payments, old.id).status = old.status
                  \/ <<old.status, Stored(payments, old.id).status>> \in LegalTransitions
             ELSE old.status \notin {COMPLETED, REFUNDED}

\* C24 as stated: a remove(id), another remove of the same id in flight or
\* not, takes out of the store at most one payment, and only the one with
\* that id.
C24_RemoveTakesOnlyItsId ==
    outcome.op = "removeEntity"
    => /\ Len(payments) >= Len(outcome.before.payments) - 1
       /\ \A i \in 1..Len(outcome.before.payments) :
            ~Holds(payments, outcome.before.payments[i].id)
            => outcome.before.payments[i].id = outcome.id

\* C25 as stated: when update, processPayment or refundPayment returns a
\* payment, the store holds a payment with that id equal to the returned one,
\* and the payment the call read at its lookup is the one it replaced.
C25_ReturnedPaymentIsStored ==
    (/\ outcome.op \in {"updateEntity", "processPayment", "refundPayment"}
     /\ outcome.err = NoError)
    => /\ Holds(payments, outcome.id)
       /\ Stored(payments, outcome.id) = outcome.response.fields
       /\ Holds(outcome.before.payments, outcome.id)
       /\ Stored(outcome.before.payments, outcome.id) = outcome.held.payment

\* C26 as stated: every stored payment has a positive amount and a currency
\* that, in upper case, is USD, EUR or GBP.
C26_StoredAmountPositive ==
    \A i \in 1..Len(payments) :
        /\ payments[i].amount > 0
        /\ Supported(payments[i].currency)

(* C27: processPayment(id) on a pending payment succeeds, stores the payment *)
(* with status completed or failed and returns it as stored; refundPayment  *)
(* on a completed payment succeeds, stores it as refunded and returns it;   *)
(* on a payment in any other status each raises BadRequest, on an id no     *)
(* payment has NotFound, and a failed call leaves the store as it was.      *)
C27_ProcessAndRefundGuarded ==
    outcome.op \in {"processPayment", "refundPayment"}
    => LET from == IF outcome.op = "processPayment" THEN PENDING ELSE COMPLETED
           to == IF outcome.op = "processPayment" THEN {COMPLETED, FAILED}
                 ELSE {REFUNDED}
       IN IF ~Holds(outcome.before.payments, outcome.id)
          THEN /\ outcome.err.kind = "NotFound"
               /\ outcome.response = NoResponse
               /\ StoreUntouched
          ELSE IF Stored(outcome.before.payments, outcome.id).status # from
          THEN /\ outcome.err.kind = "BadRequest"
               /\ outcome.response = NoResponse
               /\ StoreUntouched
          ELSE /\ outcome.err = NoError
               /\ Stored(payments, outcome.id).status \in to
               /\ outcome.response.fields = Stored(payments, outcome.id)
               /\ IdsOf(payments) = IdsOf(outcome.before.payments)
               /\ \A i \in 1..Len(payments) :
                    payments[i].id # outcome.id
                    => payments[i] = outcome.before.payments[i]

\* C27 witness: processPayment of a payment that had already been completed
\* was refused while another payment was stored
C27_Witness ==
    /\ outcome.op = "processPayment"
    /\ outcome.err.kind = "BadRequest"
    /\ Len(payments) = 2
    /\ Stored(payments, outcome.id).status = COMPLETED
    /\ payments = outcome.before.payments

(* C28: with calls served one at a time, a payment whose stored status is   *)
(* completed or refunded is still in the store after every call, with       *)
(* status completed or refunded; a remove of it fails.                      *)
C28_CompletedStays ==
    outcome.op # "none"
    => \A i \in 1..Len(outcome.before.payments) :
          outcome.before.payments[i].status \in {COMPLETED, REFUNDED}
          => /\ Holds(payments, outcome.before.payments[i].id)
             /\ Stored(payments, outcome.before.payments[i].id).status
                    \in {COMPLETED, REFUNDED}
             /\ (outcome.op = "removeEntity"
                 /\ outcome.id = outcome.before.payments[i].id)
                => outcome.err.kind = "BadRequest"

\* C28 witness: the remove of a refunded payment was refused and it is stored
C28_Witness ==
    /\ outcome.op = "removeEntity"
    /\ outcome.err = BadRequestException("Cannot delete refunded payments", 0)
    /\ Holds(payments, outcome.id)
    /\ Stored(payments, outcome.id).status = REFUNDED

(* C29: a successful update(id, dto) leaves the list length, the id counter *)
(* and every other payment as they were; the payment with that id stays at  *)
(* its position with the fields it had, takes the dto's value for every     *)
(* field the dto supplies (its status only when dto.status is not empty),   *)
(* keeps the value of every other field, id, createdAt, transactionId and   *)
(* status among them, and has the clock's reading as updatedAt; the         *)
(* response carries exactly that payment.                                   *)
C29_UpdateFrame ==
    (outcome.op = "updateEntity" /\ outcome.err = NoError)
    => /\ Len(payments) = Len(outcome.before.payments)
       /\ idCounter = outcome.before.idCounter
       /\ \A i \in 1..Len(outcome.before.payments) :
            LET old == outcome.before.payments[i]
                new == payments[i]
                supplied == IF SetsStatus(outcome.dto) THEN DOMAIN outcome.dto
                            ELSE (DOMAIN outcome.dto) \ {"status"}
            IN IF old.id # outcome.id
               THEN new = old
               ELSE /\ DOMAIN new = DOMAIN old \cup supplied
                    /\ \A k \in supplied : new[k] = outcome.dto[k]
                    /\ \A k \in (DOMAIN old) \ (supplied \cup {"updatedAt"}) :
                          new[k] = old[k]
                    /\ new.id = old.id
                    /\ new.createdAt = old.createdAt
                    /\ new.transactionId = old.transactionId
                    /\ new.updatedAt = now
                    /\ outcome.response.fields = new

\* C29 witness: the second of two payments, completed earlier, took a new
\* amount at a later reading of the clock and kept its status
C29_Witness ==
    /\ outcome.op = "updateEntity"
    /\ outcome.err = NoError
    /\ Len(payments) = 2
    /\ payments[2].id = outcome.id
    /\ DOMAIN outcome.dto = {"amount"}
    /\ outcome.before.payments[2].amount # outcome.dto.amount
    /\ payments[2].amount = outcome.dto.amount
    /\ payments[2].status = COMPLETED
    /\ payments[2].updatedAt > payments[2].createdAt
    /\ payments[1] = outcome.before.payments[1]

(* C30: constructed from the same argument list, the class of the first     *)
(* AutoEntity (super(...args), then the copy) and the class of the second   *)
(* (super(), then the copy) have the same fields with the same values       *)
(* whenever the decorated class's constructor sets no field, as Payment's;  *)
(* where the two differ, the decorated class's constructor has set fields   *)
(* from the arguments that it does not set without them.                    *)
C30_EntityVariantsAgree ==
    result.op = "AutoEntity"
    => /\ result.base = "Object"
          => /\ DOMAIN result.superArgs = DOMAIN result.superNone
             /\ \A k \in DOMAIN result.superArgs :
                  result.superArgs[k] = result.superNone[k]
       /\ result.superArgs # result.superNone
          => /\ Super(result.base, result.args) # EmptyObject
             /\ Super(result.base, result.args) # Super(result.base, <<>>)

\* C30 witness: both Payment classes were constructed from two arguments,
\* and both instances have the fields of the first argument only
C30_Witness ==
    /\ result.op = "AutoEntity"
    /\ result.base = "Object"
    /\ Len(result.args) = 2
    /\ result.superArgs = [id |-> Num(2)]
    /\ result.superNone = [id |-> Num(2)]

====
